---- MODULE Spec2Model ----
(***************************************************************************)
(* Chunked upload lifecycle of the file server: the upload registry        *)
(* (chunksTracker), the processing gate (processingLock), the chunk        *)
(* combiner, the cleanup ledger and the sync registry.                     *)
(*                                                                         *)
(* Node runs one handler at a time; a handler gives up control only at an  *)
(* await.  Every action below is the code between two awaits of one        *)
(* request, so the interleavings of the model are the interleavings the    *)
(* event loop can produce.                                                 *)
(***************************************************************************)
EXTENDS Integers, Sequences, FiniteSets, TLC

\* ---------------------------------------------------------------- bounds
MaxSubmissions == 3
MaxChunks == 2
MaxTasks == 2
MaxPoolTasks == 4

Uploads == {"u1"}
Reqs == {1, 2}
ChunkIdx == 0..(MaxChunks - 1)
Totals == 1..MaxChunks

\* S3Service.config: the defaults the exported instance runs with
maxConcurrent == 3
maxRetries == 3

\* the errors one transfer attempt can end with (fs.access, s3Client.send)
Errors == {"ENOENT", "AccessDenied"}

\* file paths handed to queueForSync
SyncFiles == {1}

VARIABLES
  chunksTracker,    \* uploadTracker: Map uploadId -> tracking object
  processingLock,   \* uploadTracker: Map uploadId -> true
  chunksDir,        \* chunk directory: file `${uploadId}-${i}` -> payload, 0 = no file
  processingDir,    \* processing directory: file temp_${uploadId}
  uploadDir,        \* output directory: the final artifacts
  cleanupRegistry,  \* CleanupService.cleanupRegistry
  expiryTimers,     \* pending setTimeout callbacks of cleanupUpload, per upload
  syncRegistry,     \* S3Service.syncRegistry: the registered sync tasks
  req,              \* the chunk submissions in flight, one record per request
  nSubmitted,       \* number of submissions so far; also the payload tag
  syncQueue,        \* S3Service.queue: the engine's tasks and their callers
  clock             \* Date.now(), in submissions to the sync queue

vars == <<chunksTracker, processingLock, chunksDir, processingDir, uploadDir,
          cleanupRegistry, expiryTimers, syncRegistry, req, nSubmitted,
          syncQueue, clock>>

\* the variables of the sync queue, which the upload lifecycle never touches
syncVars == <<syncRegistry, syncQueue, clock>>

\* ---------------------------------------------------------------- values
NoSession == [live |-> FALSE, chunks |-> <<>>, totalChunks |-> 0,
              status |-> "", error |-> ""]

NoFile == [exists |-> FALSE, ino |-> 0, data |-> <<>>]

NoRecord == [present |-> FALSE, chunks |-> 0, final |-> 0, cleaned |-> FALSE]

IdleReq == [pc |-> "idle", id |-> 0, uploadId |-> "", chunkNumber |-> 0,
            totalChunks |-> 0, T |-> 0, ino |-> 0, wr |-> -1, stream |-> "none",
            written |-> <<>>, settled |-> FALSE, missing |-> FALSE,
            combined |-> FALSE, kind |-> "", success |-> FALSE, err |-> "",
            final |-> 0, reg |-> FALSE, regFinal |-> 0, snapshot |-> {},
            outcome |-> "", syncTaskId |-> 0]

Range(s) == {s[k] : k \in 1..Len(s)}

\* the copy loop of combineChunks, or its destination stream, is still at work
Copying(rq) == rq.wr >= 0 \/ rq.stream = "ended"

\* a request record no code is running for any more
Free(rq) == rq.pc \in {"idle", "done"} /\ ~Copying(rq)

\* the locals of the calls that have returned are dropped
Drop(rq) ==
  IF rq.pc = "done" /\ ~Copying(rq)
  THEN [rq EXCEPT !.T = 0, !.ino = 0, !.written = <<>>, !.stream = "none"]
  ELSE rq

\* a request record whose handler has returned or thrown
Settle(rq, outcome) ==
  Drop([rq EXCEPT !.pc = "done", !.outcome = outcome, !.snapshot = {},
                  !.reg = FALSE, !.regFinal = 0, !.success = FALSE,
                  !.final = 0, !.id = 0, !.chunkNumber = 0,
                  !.totalChunks = 0])

\* ------------------------------------------------------------ the registry
\* initializeUpload
InitializeUpload(u) ==
  /\ ~chunksTracker[u].live
  /\ chunksTracker' = [chunksTracker EXCEPT ![u] =
        [live |-> TRUE, chunks |-> <<>>, totalChunks |-> 0,
         status |-> "initializing", error |-> ""]]
  /\ UNCHANGED syncVars
  /\ UNCHANGED <<processingLock, chunksDir, processingDir, uploadDir,
                 cleanupRegistry, expiryTimers, req, nSubmitted>>

\* tracking.chunks.add(chunkNum): a JS Set keeps insertion order and no duplicate
AddChunkTwice(chunks, n) == Append(chunks, n)

AddChunk(chunks, n) == IF n \in Range(chunks) THEN chunks ELSE Append(chunks, n)

\* markUploadAsFailed
MarkNothing(tracker, u, error) == tracker

MarkUploadAsFailed(tracker, u, error) ==
  IF tracker[u].live
  THEN [tracker EXCEPT ![u].status = "failed", ![u].error = error]
  ELSE tracker

\* processingLock.get(uploadId) is falsy
GateAlwaysFree(u) == TRUE

GateFree(u) == ~processingLock[u]

\* processingLock.delete(uploadId) in the catch of handleChunkUpload
KeepLock(lock, u) == lock

ReleaseOnFailure(lock, u) == [lock EXCEPT ![u] = FALSE]

\* ------------------------------------------------------ the chunk delivery
\* multer's diskStorage writes the chunk to `${uploadId}-${chunkNumber}` and then
\* calls the handler.  The payload is the submission's number.  A request
\* multer rejects, or one without a file, throws before the registry is read
\* and is left out.
StoreChunk(r, u, i, t) ==
  /\ Free(req[r])
  /\ \A q \in Reqs : q < r => ~Free(req[q])
  /\ nSubmitted < MaxSubmissions
  /\ nSubmitted' = nSubmitted + 1
  /\ chunksDir' = [chunksDir EXCEPT ![u][i] = nSubmitted + 1]
  /\ req' = [req EXCEPT ![r] = [IdleReq EXCEPT !.pc = "stored",
                                  !.id = nSubmitted + 1, !.uploadId = u,
                                  !.chunkNumber = i, !.totalChunks = t]]
  /\ UNCHANGED syncVars
  /\ UNCHANGED <<chunksTracker, processingLock, processingDir, uploadDir,
                 cleanupRegistry, expiryTimers>>

\* ------------------------------------------------------- the cleanup ledger
\* registerForCleanup: the record is replaced as a whole
RegisterForCleanup(registry, u, nChunks, final) ==
  [registry EXCEPT ![u] = [present |-> TRUE, chunks |-> nChunks,
                           final |-> final, cleaned |-> FALSE]]

\* cleanupUpload up to its first await: the ledger record is looked up, then the
\* chunk directory is listed
BeginCleanup(rq, registry, success, err) ==
  [rq EXCEPT !.pc = "scan", !.success = success, !.err = err,
             !.reg = registry[rq.uploadId].present,
             !.regFinal = registry[rq.uploadId].final]

\* the callback of setTimeout in cleanupUpload's finally.  The delay of one hour
\* is not modelled: a pending callback may run at any later time.
ExpireLedger(u) ==
  /\ expiryTimers[u] > 0
  /\ expiryTimers' = [expiryTimers EXCEPT ![u] = @ - 1]
  /\ cleanupRegistry' = [cleanupRegistry EXCEPT ![u] = NoRecord]
  /\ UNCHANGED syncVars
  /\ UNCHANGED <<chunksTracker, processingLock, chunksDir, processingDir,
                 uploadDir, req, nSubmitted>>

\* ---------------------------------------------------------- handleChunkUpload
\* chunksTracker.get(uploadId) is undefined: 'Invalid upload ID' is thrown
SessionNeverMissing(tracking) == FALSE

SessionMissing(tracking) == ~tracking.live

\* tracking.chunks.size === tracking.totalChunks
CompleteAtLeast(chunks, total) == Len(chunks) >= total

IsComplete(chunks, total) == Len(chunks) = total

\* handleChunkUpload from its entry to its first await or its return.  The
\* time stamps and the chunksReceived copy that updateUploadProgress stores are
\* left out.
HandleChunkUpload(r) ==
  LET rq == req[r]
      u == rq.uploadId
      tracking == chunksTracker[u]
      chunks2 == AddChunk(tracking.chunks, rq.chunkNumber)
  IN
  /\ rq.pc = "stored"
  /\ UNCHANGED syncVars
  /\ UNCHANGED <<chunksDir, uploadDir, expiryTimers, nSubmitted>>
  /\ IF SessionMissing(tracking)
     THEN /\ req' = [req EXCEPT ![r] =
                       Settle([rq EXCEPT !.err = "Invalid upload ID"], "invalid")]
          /\ UNCHANGED <<chunksTracker, processingLock, processingDir,
                         cleanupRegistry>>
     ELSE /\ chunksTracker' = [chunksTracker EXCEPT ![u].chunks = chunks2,
                                 ![u].totalChunks = rq.totalChunks]
          /\ IF IsComplete(chunks2, rq.totalChunks)
             THEN IF GateFree(u)
                  THEN \* the gate is taken and combineAndProcessChunks runs to
                       \* its await of combineChunks
                       /\ processingLock' = [processingLock EXCEPT ![u] = TRUE]
                       /\ processingDir' = [processingDir EXCEPT ![u] =
                            IF @.exists THEN [@ EXCEPT !.data = <<>>]
                            ELSE [exists |-> TRUE, ino |-> rq.id, data |-> <<>>]]
                       /\ cleanupRegistry' = RegisterForCleanup(cleanupRegistry,
                                                u, rq.totalChunks, 0)
                       /\ req' = [req EXCEPT ![r].pc = "access",
                                    ![r].T = rq.totalChunks,
                                    ![r].ino = IF processingDir[u].exists
                                               THEN processingDir[u].ino
                                               ELSE rq.id,
                                    ![r].stream = "open"]
                  ELSE /\ req' = [req EXCEPT ![r] = Settle(rq, "processing")]
                       /\ UNCHANGED <<processingLock, processingDir,
                                      cleanupRegistry>>
             ELSE /\ req' = [req EXCEPT ![r] = Settle(rq, "received")]
                  /\ UNCHANGED <<processingLock, processingDir, cleanupRegistry>>

\* ------------------------------------------------------------- combineChunks
\* the chunk read by the k-th turn of the copy loop
DescendingChunk(k, total) == total - 1 - k

ChunkAt(k, total) == k

\* the destination stream state at which combineChunks resolves: resolve is the
\* listener of 'finish'
CombineResolved(stream) == stream = "finished"

\* the fs.promises.access checks have settled
CheckChunks(r) ==
  LET rq == req[r]
      u == rq.uploadId
      missingChunk == \E i \in 0..(rq.T - 1) : chunksDir[u][i] = 0
  IN
  /\ rq.pc = "access"
  /\ req' = [req EXCEPT ![r] =
       IF missingChunk
       THEN \* reject: combineAndProcessChunks goes to its catch; the then
            \* callback of Promise.all runs all the same
            BeginCleanup([rq EXCEPT !.settled = TRUE, !.missing = TRUE, !.wr = 0],
                         cleanupRegistry, FALSE, "Missing chunk file")
       ELSE [rq EXCEPT !.pc = "combining", !.wr = 0]]
  /\ UNCHANGED syncVars
  /\ UNCHANGED <<chunksTracker, processingLock, chunksDir, processingDir,
                 uploadDir, cleanupRegistry, expiryTimers, nSubmitted>>

\* combineAndProcessChunks after combineChunks resolved, up to its await of
\* processImage
AfterCombine(rq) ==
  IF ~rq.settled /\ CombineResolved(rq.stream)
  THEN [rq EXCEPT !.settled = TRUE, !.combined = TRUE, !.pc = "transform",
                  !.final = rq.id]
  ELSE rq
\* the ledger after combineChunks resolved: the record is registered again, now
\* with the final file name
LedgerAfterCombine(rq2, registry) ==
  IF rq2.pc = "transform"
  THEN RegisterForCleanup(registry, rq2.uploadId, rq2.T, rq2.final)
  ELSE registry

\* one turn of the copy loop: readFile of the next chunk, then write; after the
\* last write the loop ends and writeStream.end() is called
WriteChunk(r) ==
  LET rq == req[r]
      u == rq.uploadId
      i == ChunkAt(rq.wr, rq.T)
      last == rq.wr + 1 = rq.T
      wrote == [rq EXCEPT !.written = Append(@, chunksDir[u][i]),
                          !.wr = IF last THEN -1 ELSE rq.wr + 1,
                          !.stream = IF last THEN "ended" ELSE "open"]
      rq2 == AfterCombine(wrote)
  IN
  /\ rq.wr >= 0
  /\ rq.stream = "open"
  /\ IF chunksDir[u][i] = 0
     THEN \* readFile throws: the loop stops and the stream is left open
          /\ req' = [req EXCEPT ![r] =
               IF rq.settled THEN Drop([rq EXCEPT !.wr = -1])
               ELSE BeginCleanup([rq EXCEPT !.wr = -1, !.settled = TRUE],
                                 cleanupRegistry, FALSE, "ENOENT")]
          /\ UNCHANGED <<processingDir, cleanupRegistry>>
     ELSE /\ req' = [req EXCEPT ![r] = rq2]
          /\ processingDir' = [processingDir EXCEPT ![u] =
               IF @.exists /\ @.ino = rq.ino
               THEN [@ EXCEPT !.data = Append(@, chunksDir[u][i])]
               ELSE @]
          /\ cleanupRegistry' = LedgerAfterCombine(rq2, cleanupRegistry)
  /\ UNCHANGED syncVars
  /\ UNCHANGED <<chunksTracker, processingLock, chunksDir, uploadDir,
                 expiryTimers, nSubmitted>>

\* the destination stream emits 'finish'
StreamFinish(r) ==
  LET rq == req[r]
      rq2 == Drop(AfterCombine([rq EXCEPT !.stream = "finished"]))
  IN
  /\ rq.stream = "ended"
  /\ req' = [req EXCEPT ![r] = rq2]
  /\ cleanupRegistry' = LedgerAfterCombine(rq2, cleanupRegistry)
  /\ UNCHANGED syncVars
  /\ UNCHANGED <<chunksTracker, processingLock, chunksDir, processingDir,
                 uploadDir, expiryTimers, nSubmitted>>

\* --------------------------------------------------------------- processImage
Kinds == {"preserved", "optimized", "error-preserved"}

\* the bytes sharp writes are not the bytes it read
Optimized(data) == [k \in 1..Len(data) |-> 0 - data[k]]

\* processImage has settled; combineAndProcessChunks goes on to its next await
ProcessImage(r, kind) ==
  LET rq == req[r]
      u == rq.uploadId
      temp == processingDir[u]
  IN
  /\ rq.pc = "transform"
  /\ IF ~temp.exists
     THEN \* copyFile throws in processImage's catch too
          /\ req' = [req EXCEPT ![r] =
               BeginCleanup([rq EXCEPT !.kind = "threw"], cleanupRegistry,
                            FALSE, "ENOENT")]
          /\ UNCHANGED uploadDir
     ELSE /\ uploadDir' = uploadDir \cup
               {[owner |-> u, name |-> rq.final,
                 data |-> IF kind = "optimized" THEN Optimized(temp.data)
                          ELSE temp.data]}
          /\ req' = [req EXCEPT ![r] =
               IF kind = "error-preserved"
               THEN BeginCleanup([rq EXCEPT !.kind = kind], cleanupRegistry,
                                 FALSE, "Failed to process file")
               ELSE BeginCleanup([rq EXCEPT !.kind = kind], cleanupRegistry,
                                 TRUE, "")]
  /\ UNCHANGED syncVars
  /\ UNCHANGED <<chunksTracker, processingLock, chunksDir, processingDir,
                 cleanupRegistry, expiryTimers, nSubmitted>>

\* ------------------------------------------------------------- cleanupUpload
\* readdir(chunksDir) has settled
ScanChunks(r) ==
  LET rq == req[r]
      u == rq.uploadId
  IN
  /\ rq.pc = "scan"
  /\ req' = [req EXCEPT ![r].pc = "unlink",
               ![r].snapshot = {i \in ChunkIdx : chunksDir[u][i] # 0}]
  /\ UNCHANGED syncVars
  /\ UNCHANGED <<chunksTracker, processingLock, chunksDir, processingDir,
                 uploadDir, cleanupRegistry, expiryTimers, nSubmitted>>

\* the return statement of combineAndProcessChunks: syncTaskId and s3Key are
\* declared nowhere, so evaluating it throws a ReferenceError
PipelineReturn(rq) ==
  [ok |-> FALSE, error |-> "syncTaskId is not defined", syncTaskId |-> 0]

\* the rest of cleanupUpload, and then the caller up to its next await or to
\* the end of handleChunkUpload
FinishCleanup(r) ==
  LET rq == req[r]
      u == rq.uploadId
      ledger == [cleanupRegistry EXCEPT ![u] =
                   IF rq.reg /\ @.present THEN [@ EXCEPT !.cleaned = TRUE] ELSE @]
      result == PipelineReturn(rq)
  IN
  /\ rq.pc = "unlink"
  /\ chunksDir' = [chunksDir EXCEPT ![u] =
       [i \in ChunkIdx |-> IF i \in rq.snapshot THEN 0 ELSE @[i]]]
  /\ processingDir' = [processingDir EXCEPT ![u] = NoFile]
  /\ uploadDir' = IF ~rq.success /\ rq.regFinal # 0
                  THEN {f \in uploadDir : ~(f.owner = u /\ f.name = rq.regFinal)}
                  ELSE uploadDir
  /\ cleanupRegistry' = ledger
  /\ expiryTimers' = [expiryTimers EXCEPT ![u] = @ + 1]
  /\ IF rq.success
     THEN IF result.ok
          THEN \* handleChunkUpload retires the session and returns the payload
               /\ chunksTracker' = [chunksTracker EXCEPT ![u] = NoSession]
               /\ processingLock' = [processingLock EXCEPT ![u] = FALSE]
               /\ req' = [req EXCEPT ![r] =
                    Settle([rq EXCEPT !.syncTaskId = result.syncTaskId],
                           "completed")]
          ELSE \* the catch of combineAndProcessChunks: cleanupUpload(false)
               /\ req' = [req EXCEPT ![r] =
                    BeginCleanup(rq, ledger, FALSE, result.error)]
               /\ UNCHANGED <<chunksTracker, processingLock>>
     ELSE \* the error is rethrown to handleChunkUpload's two catch blocks
          /\ processingLock' = ReleaseOnFailure(processingLock, u)
          /\ chunksTracker' = MarkUploadAsFailed(chunksTracker, u, rq.err)
          /\ req' = [req EXCEPT ![r] = Settle(rq, "error")]
  /\ UNCHANGED syncVars
  /\ UNCHANGED <<nSubmitted>>

\* The errors one call of cleanupUpload can meet: readdir rejects, or the
\* unlink of some listed chunks, of the temp file, of the final file rejects.
Faults ==
  {[listing |-> TRUE, chunks |-> {}, temp |-> FALSE, final |-> FALSE]}
  \cup [listing : {FALSE}, chunks : SUBSET ChunkIdx, temp : BOOLEAN,
        final : BOOLEAN]

NoFault == [listing |-> FALSE, chunks |-> {}, temp |-> FALSE, final |-> FALSE]

\* the catch of cleanupUpload: does the call reject?
CleanupRethrows(listingFailed) == listingFailed

CleanupRaises(listingFailed) == FALSE

\* One whole call of cleanupUpload with nothing else running in between, under
\* the errors of `fault`: what it leaves in the three directories and in the
\* ledger, and whether it rejects.  A rejected readdir skips the rest of the
\* try block; a rejected unlink is logged and the call goes on.
CleanupUpload(chunks, temp, out, registry, u, success, fault) ==
  LET listed == {i \in ChunkIdx : chunks[u][i] # 0}
      rec == registry[u]
  IN
  IF fault.listing
  THEN [chunksDir |-> chunks, processingDir |-> temp, uploadDir |-> out,
        cleanupRegistry |-> registry, raised |-> CleanupRaises(TRUE)]
  ELSE [chunksDir |-> [chunks EXCEPT ![u] =
                         [i \in ChunkIdx |->
                            IF i \in listed \ fault.chunks THEN 0 ELSE @[i]]],
        processingDir |-> IF fault.temp THEN temp
                          ELSE [temp EXCEPT ![u] = NoFile],
        uploadDir |-> IF ~success /\ rec.present /\ rec.final # 0 /\ ~fault.final
                      THEN {f \in out : ~(f.owner = u /\ f.name = rec.final)}
                      ELSE out,
        cleanupRegistry |-> IF rec.present
                            THEN [registry EXCEPT ![u].cleaned = TRUE]
                            ELSE registry,
        raised |-> CleanupRaises(FALSE)]

\* ------------------------------------------------------- status and cancel
\* the chain of tests in getUploadStatus that picks the reported status
StatusBySizeFirst(isProcessing, isComplete, size) ==
  IF size > 0 THEN "in_progress"
  ELSE IF isProcessing THEN "processing"
  ELSE IF isComplete THEN "completed"
  ELSE "initializing"

DerivedStatus(isProcessing, isComplete, size) ==
  IF isProcessing THEN "processing"
  ELSE IF isComplete THEN "completed"
  ELSE IF size > 0 THEN "in_progress"
  ELSE "initializing"

\* getUploadStatus.  It never throws: an unknown identifier gets a view of its
\* own, without the two counts (-1).  The status and error that
\* markUploadAsFailed stored in the tracking object are not read.
GetUploadStatus(tracker, lock, u) ==
  LET tracking == tracker[u]
      isProcessing == lock[u]
      isComplete == Len(tracking.chunks) = tracking.totalChunks
  IN IF ~tracking.live
     THEN [threw |-> FALSE, status |-> "failed", error |-> "Upload not found",
           chunksReceived |-> -1, totalChunks |-> -1, processingStatus |-> ""]
     ELSE [threw |-> FALSE,
           status |-> DerivedStatus(isProcessing, isComplete,
                                    Len(tracking.chunks)),
           error |-> "",
           chunksReceived |-> Len(tracking.chunks),
           totalChunks |-> tracking.totalChunks,
           processingStatus |-> IF isProcessing THEN "active" ELSE "inactive"]

\* GET /upload/status/:uploadId answers 404 only if getUploadStatus throws,
\* and with the view otherwise.  Nothing is written.
StatusResponse(u) ==
  LET view == GetUploadStatus(chunksTracker, processingLock, u)
  IN [code |-> IF view.threw THEN 404 ELSE 200, view |-> view]

StatusRoute(u) ==
  /\ StatusResponse(u).code \in {200, 404}
  /\ UNCHANGED vars

\* processingLock.get(uploadId) is truthy, as cancelUpload tests it
GateNeverHeld(lock, u) == FALSE

GateHeld(lock, u) == lock[u]

\* cleanupUploadChunks.  The module is an ES module, in which `require` is not
\* defined: the first statement throws a ReferenceError and no file is deleted.
CleanupUploadChunks(chunks, temp, u, tracking) ==
  [threw |-> TRUE, error |-> "require is not defined",
   chunksDir |-> chunks, processingDir |-> temp]

\* cancelUpload
CancelUpload(tracker, lock, chunks, temp, u) ==
  LET unchanged == [threw |-> TRUE, status |-> "", error |-> "", cause |-> "",
                    chunksTracker |-> tracker, processingLock |-> lock,
                    chunksDir |-> chunks, processingDir |-> temp]
      c == CleanupUploadChunks(chunks, temp, u, tracker[u])
  IN IF ~tracker[u].live
     THEN [unchanged EXCEPT !.error = "Upload not found"]
     ELSE IF GateHeld(lock, u)
     THEN [unchanged EXCEPT !.error = "Cannot cancel upload while processing"]
     ELSE IF c.threw
     THEN [unchanged EXCEPT !.error = "Failed to cancel upload",
                            !.cause = c.error,
                            !.chunksDir = c.chunksDir,
                            !.processingDir = c.processingDir]
     ELSE [threw |-> FALSE, status |-> "cancelled", error |-> "", cause |-> "",
           chunksTracker |-> [tracker EXCEPT ![u] = NoSession],
           processingLock |-> [lock EXCEPT ![u] = FALSE],
           chunksDir |-> c.chunksDir, processingDir |-> c.processingDir]

\* POST /upload/cancel answers every error of cancelUpload with 500
CancelResponse(u) ==
  LET res == CancelUpload(chunksTracker, processingLock, chunksDir,
                          processingDir, u)
  IN [code |-> IF res.threw THEN 500 ELSE 200, res |-> res]

CancelRoute(u) ==
  LET res == CancelResponse(u).res
  IN
  /\ chunksTracker' = res.chunksTracker
  /\ processingLock' = res.processingLock
  /\ chunksDir' = res.chunksDir
  /\ processingDir' = res.processingDir
  /\ UNCHANGED syncVars
  /\ UNCHANGED <<uploadDir, cleanupRegistry, expiryTimers, req, nSubmitted>>

\* ----------------------------------------------------------- the sync queue
\* A task of the queue engine: qid is the identifier the engine gave the task
\* (a uuid, here a negative number: push is handed fileInfo only, which has no
\* id field), key is the taskId of the queueForSync call that pushed it,
\* promise is the state of the promise that call returned.
SyncTask(key, file) ==
  [qid |-> 0 - key, key |-> key, file |-> file, state |-> "queued",
   failures |-> 0, err |-> "", promise |-> "pending", returned |-> 0]

Tasks == 1..Len(syncQueue)

\* updateSyncStatus, which stamps startTime as well
UpdateAndRestamp(registry, taskId, status, error, now) ==
  {IF e.id = taskId
   THEN [e EXCEPT !.status = status, !.error = error, !.completedTime = now,
                  !.startTime = now]
   ELSE e : e \in registry}

\* updateSyncStatus: an identifier that is not a key of the registry changes
\* nothing
UpdateSyncStatus(registry, taskId, status, error, now) ==
  {IF e.id = taskId
   THEN [e EXCEPT !.status = status, !.error = error, !.completedTime = now]
   ELSE e : e \in registry}

\* the listeners of setupQueueEvents, called with the engine's identifier
OnTaskFinish(registry, qid, now) ==
  UpdateSyncStatus(registry, qid, "completed", "", now)

OnTaskFailed(registry, qid, error, now) ==
  UpdateSyncStatus(registry, qid, "failed", error, now)

OnTaskRetry(registry, qid) == registry

\* the callback queueForSync hands to queue.push, closed over its own taskId
PushCallback(registry, key, err, now) ==
  IF err # "" THEN UpdateSyncStatus(registry, key, "failed", err, now)
  ELSE registry

\* queueForSync up to the return of its promise: the task is registered as
\* pending and pushed.  The promise settles in the push callback.
Submit(file, cap) ==
  LET taskId == Len(syncQueue) + 1
  IN
  /\ Len(syncQueue) < cap
  /\ clock' = clock + 1
  /\ syncRegistry' = syncRegistry \cup
       {[id |-> taskId, status |-> "pending", startTime |-> clock',
         error |-> "", completedTime |-> 0, file |-> file]}
  /\ syncQueue' = Append(syncQueue, SyncTask(taskId, file))
  /\ UNCHANGED <<chunksTracker, processingLock, chunksDir, processingDir,
                 uploadDir, cleanupRegistry, expiryTimers, req, nSubmitted>>

QueueForSync(file) == Submit(file, MaxTasks)

\* the same call in a run that submits more tasks than the pool has slots
QueueForSyncPool(file) == Submit(file, MaxPoolTasks)

\* the number of tasks the handler is working on
Transferring(queue) ==
  Cardinality({j \in 1..Len(queue) : queue[j].state = "running"})

\* the option `concurrent` of the engine: a queued task may be handed to the
\* handler while fewer than that many are with it
SlotAlwaysFree(running) == TRUE

SlotFree(running) == running < maxConcurrent

\* the engine hands a queued task to the handler, at most `concurrent` at a time
StartTask(k) ==
  /\ k \in Tasks
  /\ syncQueue[k].state = "queued"
  /\ SlotFree(Transferring(syncQueue))
  /\ syncQueue' = [syncQueue EXCEPT ![k].state = "running"]
  /\ UNCHANGED <<chunksTracker, processingLock, chunksDir, processingDir,
                 uploadDir, cleanupRegistry, expiryTimers, req, nSubmitted,
                 syncRegistry, clock>>

\* the engine gives up on a task after maxRetries failed attempts
Exhausted(failures) == failures >= maxRetries

\* uploadToS3 resolves and the handler calls cb(null, result): the engine emits
\* task_finish and calls the push callback without an error.  What uploadToS3
\* does to the file and to the bucket is left out.
TransferSucceeds(k) ==
  LET t == syncQueue[k]
  IN
  /\ k \in Tasks
  /\ t.state = "running"
  /\ clock' = clock + 1
  /\ syncRegistry' = PushCallback(OnTaskFinish(syncRegistry, t.qid, clock'),
                                  t.key, "", clock')
  /\ syncQueue' = [syncQueue EXCEPT ![k].state = "finished",
                                    ![k].promise = "resolved",
                                    ![k].returned = t.key]
  /\ UNCHANGED <<chunksTracker, processingLock, chunksDir, processingDir,
                 uploadDir, cleanupRegistry, expiryTimers, req, nSubmitted>>

\* uploadToS3 throws and the handler calls cb(error): the engine either emits
\* task_retry and waits for retryDelay, or emits task_failed and calls the push
\* callback with the error
TransferFails(k, e) ==
  LET t == syncQueue[k]
      failures == t.failures + 1
  IN
  /\ k \in Tasks
  /\ t.state = "running"
  /\ UNCHANGED <<chunksTracker, processingLock, chunksDir, processingDir,
                 uploadDir, cleanupRegistry, expiryTimers, req, nSubmitted>>
  /\ IF Exhausted(failures)
     THEN /\ clock' = clock + 1
          /\ syncRegistry' =
               PushCallback(OnTaskFailed(syncRegistry, t.qid, e, clock'),
                            t.key, e, clock')
          /\ syncQueue' = [syncQueue EXCEPT ![k].state = "failed",
                                            ![k].failures = failures,
                                            ![k].err = e,
                                            ![k].promise = "rejected"]
     ELSE /\ syncRegistry' = OnTaskRetry(syncRegistry, t.qid)
          /\ syncQueue' = [syncQueue EXCEPT ![k].state = "waiting",
                                            ![k].failures = failures,
                                            ![k].err = e]
          /\ UNCHANGED clock

\* retryDelay has passed: the engine queues the task again
RetryDue(k) ==
  /\ k \in Tasks
  /\ syncQueue[k].state = "waiting"
  /\ syncQueue' = [syncQueue EXCEPT ![k].state = "queued"]
  /\ UNCHANGED <<chunksTracker, processingLock, chunksDir, processingDir,
                 uploadDir, cleanupRegistry, expiryTimers, req, nSubmitted,
                 syncRegistry, clock>>

\* getSyncStatus
GetSyncStatus(registry, taskId) ==
  IF \E e \in registry : e.id = taskId
  THEN LET e == CHOOSE x \in registry : x.id = taskId
       IN [threw |-> FALSE, status |-> e.status, error |-> e.error,
           startTime |-> e.startTime, completedTime |-> e.completedTime]
  ELSE [threw |-> TRUE, status |-> "", error |-> "Sync task not found",
        startTime |-> 0, completedTime |-> 0]

\* GET /upload/sync-status/:taskId answers 404 if getSyncStatus throws.
\* Nothing is written.
SyncStatusResponse(taskId) ==
  LET view == GetSyncStatus(syncRegistry, taskId)
  IN [code |-> IF view.threw THEN 404 ELSE 200, view |-> view]

SyncStatusRoute(taskId) ==
  /\ SyncStatusResponse(taskId).code \in {200, 404}
  /\ UNCHANGED vars

\* ------------------------------------------------------ the periodic sweeps
\* The age of a file is not modelled: a sweep may find any file older than its
\* threshold, or younger.

\* the uploads whose cleanupUpload is between its readdir and its return: the
\* unlink calls it awaits run in the thread pool, beside the main thread
UnlinkInFlight(rqs) ==
  {rqs[r].uploadId : r \in {x \in Reqs : rqs[x].pc = "unlink"}}

\* The callback of setInterval in setupCleanupTasks: one synchronous pass of
\* readdirSync, then statSync and unlinkSync per listed file, with no try.  A
\* listed temp file whose unlink is in flight may be gone when statSync gets to
\* it (gone), and then statSync throws out of the callback.  The outcomes the
\* pass can have: whether it threw, and the directory it leaves.
SetupCleanupTasks(temp, inflight) ==
  LET listed == {u \in Uploads : temp[u].exists}
  IN {[raised |-> gone # {},
       processingDir |-> [u \in Uploads |->
                            IF u \in gone \cup old THEN NoFile ELSE temp[u]]] :
        gone \in SUBSET (listed \cap inflight), old \in SUBSET listed}

HourlyCleanup ==
  /\ \E o \in SetupCleanupTasks(processingDir, UnlinkInFlight(req)) :
       processingDir' = o.processingDir
  /\ UNCHANGED syncVars
  /\ UNCHANGED <<chunksTracker, processingLock, chunksDir, uploadDir,
                 cleanupRegistry, expiryTimers, req, nSubmitted>>

\* cleanOldFiles, the body of its loop for one listed file: stat and unlink
\* are inside a try, a file that is gone is logged and passed over
CleanOldFiles(dir, u, old) ==
  IF dir[u].exists /\ old THEN [dir EXCEPT ![u] = NoFile] ELSE dir

CleanOldChunks(dir, u, i, old) ==
  IF dir[u][i] # 0 /\ old THEN [dir EXCEPT ![u][i] = 0] ELSE dir

\* cleanOrphanedUploads: is the file the final file of a ledger record that has
\* not been cleaned?
IsRegistered(registry, file) ==
  \E u \in Uploads : /\ registry[u].present
                     /\ registry[u].final = file.name
                     /\ ~registry[u].cleaned

\* cleanOrphanedUploads, the body of its loop for one listed file
CleanOrphanedUploads(out, registry, file, old) ==
  IF file \in out /\ old /\ ~IsRegistered(registry, file)
  THEN out \ {file} ELSE out

\* performPeriodicCleanup, one file of one of its three passes at a time
PerformPeriodicCleanup ==
  /\ \E u \in Uploads, i \in ChunkIdx, old \in BOOLEAN :
       \/ /\ chunksDir' = CleanOldChunks(chunksDir, u, i, old)
          /\ UNCHANGED <<processingDir, uploadDir>>
       \/ /\ processingDir' = CleanOldFiles(processingDir, u, old)
          /\ UNCHANGED <<chunksDir, uploadDir>>
       \/ /\ \E file \in uploadDir :
               uploadDir' = CleanOrphanedUploads(uploadDir, cleanupRegistry,
                                                 file, old)
          /\ UNCHANGED <<chunksDir, processingDir>>
  /\ UNCHANGED syncVars
  /\ UNCHANGED <<chunksTracker, processingLock, cleanupRegistry, expiryTimers,
                 req, nSubmitted>>

\* -------------------------------------------------------------- specification
Init ==
  /\ chunksTracker = [u \in Uploads |-> NoSession]
  /\ processingLock = [u \in Uploads |-> FALSE]
  /\ chunksDir = [u \in Uploads |-> [i \in ChunkIdx |-> 0]]
  /\ processingDir = [u \in Uploads |-> NoFile]
  /\ uploadDir = {}
  /\ cleanupRegistry = [u \in Uploads |-> NoRecord]
  /\ expiryTimers = [u \in Uploads |-> 0]
  /\ syncRegistry = {}
  /\ req = [r \in Reqs |-> IdleReq]
  /\ nSubmitted = 0
  /\ syncQueue = <<>>
  /\ clock = 0

Next ==
  \/ \E u \in Uploads : InitializeUpload(u)
  \/ \E r \in Reqs, u \in Uploads, i \in ChunkIdx, t \in Totals :
       StoreChunk(r, u, i, t)
  \/ \E r \in Reqs : HandleChunkUpload(r)
  \/ \E r \in Reqs : CheckChunks(r)
  \/ \E r \in Reqs : WriteChunk(r)
  \/ \E r \in Reqs : StreamFinish(r)
  \/ \E r \in Reqs, kind \in Kinds : ProcessImage(r, kind)
  \/ \E r \in Reqs : ScanChunks(r)
  \/ \E r \in Reqs : FinishCleanup(r)
  \/ \E u \in Uploads : ExpireLedger(u)

Spec == Init /\ [][Next]_vars

\* The upload lifecycle with the status and cancel routes called at any
\* moment, without the expiry callbacks of the ledger.  Those callbacks write
\* the ledger and nothing else, and the ledger is read only to decide whether
\* cleanupUpload deletes the final file and marks the record: the registry, the
\* gate, the progress of the requests and the chunk and temp files evolve the
\* same with them (Spec) and without them.
ApiNext ==
  \/ \E u \in Uploads : InitializeUpload(u)
  \/ \E r \in Reqs, u \in Uploads, i \in ChunkIdx, t \in Totals :
       StoreChunk(r, u, i, t)
  \/ \E r \in Reqs : HandleChunkUpload(r)
  \/ \E r \in Reqs : CheckChunks(r)
  \/ \E r \in Reqs : WriteChunk(r)
  \/ \E r \in Reqs : StreamFinish(r)
  \/ \E r \in Reqs, kind \in Kinds : ProcessImage(r, kind)
  \/ \E r \in Reqs : ScanChunks(r)
  \/ \E r \in Reqs : FinishCleanup(r)
  \/ \E u \in Uploads : StatusRoute(u)
  \/ \E u \in Uploads : CancelRoute(u)

ApiSpec == Init /\ [][ApiNext]_vars

\* The sync queue on its own: no code under src/ calls queueForSync, so the
\* submissions come from outside the upload lifecycle.
SyncNext ==
  \/ \E file \in SyncFiles : QueueForSync(file)
  \/ \E k \in 1..MaxTasks : StartTask(k)
  \/ \E k \in 1..MaxTasks : TransferSucceeds(k)
  \/ \E k \in 1..MaxTasks, e \in Errors : TransferFails(k, e)
  \/ \E k \in 1..MaxTasks : RetryDue(k)
  \/ \E taskId \in 1..MaxTasks : SyncStatusRoute(taskId)

SyncSpec == Init /\ [][SyncNext]_vars

\* The sync queue with more submissions than slots; one kind of transfer error.
PoolNext ==
  \/ \E file \in SyncFiles : QueueForSyncPool(file)
  \/ \E k \in 1..MaxPoolTasks : StartTask(k)
  \/ \E k \in 1..MaxPoolTasks : TransferSucceeds(k)
  \/ \E k \in 1..MaxPoolTasks : TransferFails(k, "ENOENT")
  \/ \E k \in 1..MaxPoolTasks : RetryDue(k)

PoolSpec == Init /\ [][PoolNext]_vars

\* The upload lifecycle of a client that sends its chunks one after the other,
\* each after the answer to the one before.
SerialNext ==
  \/ \E u \in Uploads : InitializeUpload(u)
  \/ \E r \in {1}, u \in Uploads, i \in ChunkIdx, t \in Totals :
       StoreChunk(r, u, i, t)
  \/ \E r \in {1} : HandleChunkUpload(r)
  \/ \E r \in {1} : CheckChunks(r)
  \/ \E r \in {1} : WriteChunk(r)
  \/ \E r \in {1} : StreamFinish(r)
  \/ \E r \in {1}, kind \in Kinds : ProcessImage(r, kind)
  \/ \E r \in {1} : ScanChunks(r)
  \/ \E r \in {1} : FinishCleanup(r)

SerialSpec == Init /\ [][SerialNext]_vars

\* The lifecycle of such a client with the expiry callbacks of the ledger and
\* the two periodic sweeps running beside it.
SweepNext ==
  \/ SerialNext
  \/ \E u \in Uploads : ExpireLedger(u)
  \/ HourlyCleanup
  \/ PerformPeriodicCleanup

SweepSpec == Init /\ [][SweepNext]_vars
\* ---------------------------------------------------------------- the claims
\* combineAndProcessChunks has been called for the request and has not settled
InPipeline(rq) == rq.pc \in {"access", "combining", "transform", "scan", "unlink"}

Running(u) == {r \in Reqs : InPipeline(req[r]) /\ req[r].uploadId = u}

\* the final artifacts of an upload in the output directory
FinalsOf(u) == {f \in uploadDir : f.owner = u}

\* the request's handler takes its step from the stored chunk in this transition
Handles(r) == req[r].pc = "stored" /\ req'[r].pc # "stored"

\* the request's combine pipeline settles and its handler ends in this transition
Leaves(r) == InPipeline(req[r]) /\ req'[r].pc = "done"

\* C1: at most one combine pipeline runs per upload identifier at any instant,
\* and a submission that completes the received set while the gate is held is
\* answered 'processing in progress' without entering the pipeline.
C1_OnePipeline == \A u \in Uploads : Cardinality(Running(u)) <= 1

C1_SinglePipeline ==
  /\ []C1_OnePipeline
  /\ [][\A r \in Reqs :
          LET rq == req[r]
              tracking == chunksTracker[rq.uploadId]
          IN (/\ Handles(r)
              /\ tracking.live
              /\ Len(AddChunk(tracking.chunks, rq.chunkNumber)) = rq.totalChunks
              /\ processingLock[rq.uploadId])
             => (req'[r].pc = "done" /\ req'[r].outcome = "processing")]_vars

C1_Witness ==
  \E r \in Reqs, q \in Reqs :
    /\ InPipeline(req[r])
    /\ req[q].pc = "done"
    /\ req[q].outcome = "processing"
    /\ req[q].uploadId = req[r].uploadId

\* C2: the gate of an upload is held only while a combine pipeline of that
\* upload runs: once the pipeline has settled and the submission has returned
\* or thrown, the gate is free again.
C2_GateReleased ==
  \A u \in Uploads : processingLock[u] => Running(u) # {}

C2_Witness ==
  \E r \in Reqs :
    /\ req[r].pc = "done"
    /\ req[r].outcome = "error"
    /\ ~processingLock[req[r].uploadId]
    /\ Running(req[r].uploadId) = {}

\* the transform collaborator reported success
TransformOk(rq) == rq.kind \in {"preserved", "optimized"}

\* C3: when every chunk file exists and the transform reports success, the
\* completing submission returns the success payload with a sync task
\* identifier and the session is removed from the registry.
C3_SuccessRetires ==
  \A r \in Reqs :
    (req[r].pc = "done" /\ req[r].combined /\ TransformOk(req[r]))
    => /\ req[r].outcome = "completed"
       /\ req[r].syncTaskId # 0
       /\ ~chunksTracker[req[r].uploadId].live

\* C4: after a failed pipeline no final artifact of the upload exists; after a
\* successful one exactly one exists and a sync task is registered for it.
C4_FinalArtifact ==
  \A r \in Reqs :
    LET rq == req[r] IN
    (rq.pc = "done" /\ rq.outcome \in {"error", "completed"}
       /\ Running(rq.uploadId) = {})
    => IF rq.combined /\ TransformOk(rq)
       THEN /\ Cardinality(FinalsOf(rq.uploadId)) = 1
            /\ \E f \in FinalsOf(rq.uploadId), task \in syncRegistry :
                 task.file = f.name
       ELSE FinalsOf(rq.uploadId) = {}

\* C5: when a combine pipeline settles, by success or by failure, no chunk
\* file of that upload is in the chunk directory, whether the ledger listed it
\* or not and whenever it was delivered.
C5_NoChunkLeft ==
  [][\A r \in Reqs :
       Leaves(r) => \A i \in ChunkIdx : chunksDir'[req[r].uploadId][i] = 0]_vars

\* C6: when a chunk file is missing combineChunks fails and no chunk bytes are
\* written to the destination stream, before or after the failure.
C6_NoWriteOnMissing ==
  \A r \in Reqs : req[r].missing => req[r].written = <<>>

\* the chunks 0..T-1 of the request's upload were each submitted once, and
\* nothing else was submitted
ExactlyOnce(rq) ==
  /\ nSubmitted = rq.T
  /\ Len(chunksTracker[rq.uploadId].chunks) = rq.T
  /\ Range(chunksTracker[rq.uploadId].chunks) = 0..(rq.T - 1)

\* C7: whatever the arrival order of the chunks 0..T-1, each received once, the
\* bytes written are the chunk payloads in ascending index order, and
\* combineChunks has resolved only with the destination stream finished.
C7_AscendingOrder ==
  \A r \in Reqs :
    LET rq == req[r] IN
    (rq.combined /\ rq.pc = "transform")
    => /\ rq.stream = "finished"
       /\ ExactlyOnce(rq) =>
            /\ rq.written = [k \in 1..rq.T |-> chunksDir[rq.uploadId][k - 1]]
            /\ processingDir[rq.uploadId].data = rq.written

C7_Witness ==
  \E r \in Reqs :
    /\ req[r].combined
    /\ req[r].pc = "transform"
    /\ req[r].T = 2
    /\ ExactlyOnce(req[r])
    /\ chunksTracker[req[r].uploadId].chunks = <<1, 0>>
    /\ req[r].written = <<chunksDir[req[r].uploadId][0],
                          chunksDir[req[r].uploadId][1]>>

\* C8: a submission of a chunk index the session already holds leaves the
\* received set and its size as they were, so it changes whether the set is
\* complete only by declaring another total.
C8_DuplicateIsNoOp ==
  [][\A r \in Reqs :
       LET u == req[r].uploadId
           tracking == chunksTracker[u]
       IN (/\ Handles(r)
           /\ tracking.live
           /\ req[r].chunkNumber \in Range(tracking.chunks))
          => /\ chunksTracker'[u].chunks = tracking.chunks
             /\ Len(chunksTracker'[u].chunks) = Len(tracking.chunks)
             /\ (req[r].totalChunks = tracking.totalChunks
                   => ((Len(chunksTracker'[u].chunks) = chunksTracker'[u].totalChunks)
                         <=> (Len(tracking.chunks) = tracking.totalChunks)))]_vars

C8_Witness ==
  /\ \A r \in Reqs : req[r].pc = "done" /\ req[r].outcome = "received"
  /\ \E u \in Uploads :
       /\ \A r \in Reqs : req[r].uploadId = u
       /\ Len(chunksTracker[u].chunks) = 1

\* C9: once a submission has set totalChunks, the received set never holds
\* more than totalChunks indices.
C9_SizeWithinTotal ==
  \A u \in Uploads :
    (chunksTracker[u].live /\ chunksTracker[u].totalChunks > 0)
    => Len(chunksTracker[u].chunks) <= chunksTracker[u].totalChunks

\* C10: when the combine pipeline fails the session stays registered with
\* status FAILED and the error text, the gate is released and the error is
\* rethrown to the caller of the submission.
C10_FailureRecorded ==
  [][\A r \in Reqs :
       LET u == req[r].uploadId IN
       (Leaves(r) /\ ~req[r].success)
       => /\ req'[r].outcome = "error"
          /\ req'[r].err = req[r].err
          /\ chunksTracker'[u].live
          /\ chunksTracker'[u].status = "failed"
          /\ chunksTracker'[u].error = req[r].err
          /\ ~processingLock'[u]]_vars

C10_Witness ==
  \E r \in Reqs :
    LET u == req[r].uploadId IN
    /\ req[r].pc = "done"
    /\ req[r].outcome = "error"
    /\ req[r].err = "Missing chunk file"
    /\ chunksTracker[u].live
    /\ chunksTracker[u].status = "failed"
    /\ chunksTracker[u].error = "Missing chunk file"
    /\ ~processingLock[u]

\* C11: a status query made after the combine pipeline failed, the session
\* still registered and the gate free, reports FAILED with the error text the
\* failure stored.
C11_FailedReported ==
  \A u \in Uploads :
    (chunksTracker[u].live /\ chunksTracker[u].status = "failed"
       /\ ~processingLock[u])
    => /\ StatusResponse(u).view.status = "failed"
       /\ StatusResponse(u).view.error = chunksTracker[u].error

\* C12: once a session is marked FAILED, no later chunk submission takes the
\* gate or starts the combine pipeline for it.
C12_FailedIsTerminal ==
  [][\A r \in Reqs :
       LET u == req[r].uploadId IN
       (Handles(r) /\ chunksTracker[u].live /\ chunksTracker[u].status = "failed")
       => /\ ~InPipeline(req'[r])
          /\ processingLock'[u] = processingLock[u]]_vars

\* C13: cancelling a registered session whose gate is held fails with the
\* conflict error and leaves the registry, the gate table and the chunk and
\* temp files as they were.
C13_CancelConflict ==
  \A u \in Uploads :
    LET res == CancelResponse(u).res IN
    (chunksTracker[u].live /\ processingLock[u])
    => /\ CancelResponse(u).code = 500
       /\ res.threw
       /\ res.error = "Cannot cancel upload while processing"
       /\ res.chunksTracker = chunksTracker
       /\ res.processingLock = processingLock
       /\ res.chunksDir = chunksDir
       /\ res.processingDir = processingDir

C13_Witness ==
  \E u \in Uploads :
    /\ chunksTracker[u].live
    /\ processingLock[u]
    /\ \E r \in Running(u) : req[r].pc = "combining"
    /\ \E i \in ChunkIdx : chunksDir[u][i] # 0
    /\ processingDir[u].exists
    /\ CancelResponse(u).res.error = "Cannot cancel upload while processing"

\* C14: cancelling a registered session whose gate is free succeeds: every
\* received chunk file and the temp file are deleted, the session and its gate
\* entry are removed, and CANCELLED is returned.
C14_CancelSucceeds ==
  \A u \in Uploads :
    LET res == CancelResponse(u).res IN
    (chunksTracker[u].live /\ ~processingLock[u])
    => /\ CancelResponse(u).code = 200
       /\ res.status = "cancelled"
       /\ ~res.chunksTracker[u].live
       /\ ~res.processingLock[u]
       /\ \A i \in Range(chunksTracker[u].chunks) \cap ChunkIdx :
            res.chunksDir[u][i] = 0
       /\ ~res.processingDir[u].exists

\* C15: a status query for an identifier that is not registered fails with
\* NotFound (404) and returns no status view.
C15_UnknownIsNotFound ==
  \A u \in Uploads :
    ~chunksTracker[u].live
    => /\ StatusResponse(u).code = 404
       /\ StatusResponse(u).view.threw

\* C16: the status view is PROCESSING whenever the gate is held; with the gate
\* free and k of n chunks received, 0 < k < n, it is IN_PROGRESS with
\* chunksReceived = k and totalChunks = n; INITIALIZING is reported only when
\* neither of the two applies.
C16_StatusPrecedence ==
  \A u \in Uploads :
    LET k == Len(chunksTracker[u].chunks)
        n == chunksTracker[u].totalChunks
        held == processingLock[u]
        view == StatusResponse(u).view
    IN chunksTracker[u].live
       => /\ held => view.status = "processing"
          /\ (~held /\ 0 < k /\ k < n)
             => /\ view.status = "in_progress"
                /\ view.chunksReceived = k
                /\ view.totalChunks = n
          /\ view.status = "initializing" => (~held /\ ~(0 < k /\ k < n))

C16_Witness ==
  \E u \in Uploads :
    /\ chunksTracker[u].live
    /\ processingLock[u]
    /\ Len(chunksTracker[u].chunks) = 1
    /\ chunksTracker[u].totalChunks = 2
    /\ StatusResponse(u).code = 200
    /\ StatusResponse(u).view.status = "processing"
    /\ StatusResponse(u).view.chunksReceived = 1

\* C17: a status query after initializeUpload and before any chunk submission
\* reports INITIALIZING with zero chunks received.
C17_FreshIsInitializing ==
  \A u \in Uploads :
    (chunksTracker[u].live /\ chunksTracker[u].chunks = <<>>)
    => /\ StatusResponse(u).view.status = "initializing"
       /\ StatusResponse(u).view.chunksReceived = 0

\* C18: queueForSync records the task as pending and hands its task
\* identifier back as soon as the task is admitted to the queue, whatever
\* state the transfer is in and whether or not it ever completes.
C18_SubmitReturnsAtOnce ==
  \A k \in Tasks :
    LET t == syncQueue[k] IN
    /\ ~GetSyncStatus(syncRegistry, t.key).threw
    /\ t.promise = "resolved"
    /\ t.returned = t.key

\* C19: with maxRetries = 3, a task whose transfer failed twice and then
\* succeeded is 'completed' for getSyncStatus under the identifier
\* queueForSync gave it, and a task whose every attempt failed is 'failed' with
\* the error of its last attempt.
C19_RetryOutcome ==
  \A k \in Tasks :
    LET t == syncQueue[k]
        view == GetSyncStatus(syncRegistry, t.key)
    IN /\ (t.state = "finished" /\ t.failures = 2)
          => (~view.threw /\ view.status = "completed")
       /\ t.state = "failed"
          => (~view.threw /\ view.status = "failed" /\ view.error = t.err)

\* the order of the sync statuses
Rank(status) ==
  CASE status = "pending" -> 0
    [] status = "syncing" -> 1
    [] OTHER -> 2

\* C20: the status of a sync task only moves forward along pending, syncing,
\* completed or failed; a completed or failed task never changes status again;
\* and the submission time stamp stays what queueForSync set, retries included.
C20_StatusMonotonic ==
  [][\A e \in syncRegistry :
       \E f \in syncRegistry' :
         /\ f.id = e.id
         /\ f.startTime = e.startTime
         /\ Rank(e.status) <= Rank(f.status)
         /\ e.status \in {"completed", "failed"} => f.status = e.status]_vars

C20_Witness ==
  \E k \in Tasks :
    LET t == syncQueue[k]
        view == GetSyncStatus(syncRegistry, t.key)
    IN /\ t.state = "failed"
       /\ t.failures = maxRetries
       /\ view.status = "failed"
       /\ view.startTime < view.completedTime
       /\ view.startTime < clock - 1

\* the request's handler takes the gate and calls combineAndProcessChunks in
\* this transition
StartsPipeline(r) == Handles(r) /\ req'[r].pc = "access"

\* C28 as stated: whenever a chunk submission takes the gate and starts the
\* combine pipeline, every index in [0, totalChunks) is in the received set.
C28_AllIndicesReceived ==
  [][\A r \in Reqs :
       LET u == req[r].uploadId IN
       StartsPipeline(r)
       => \A i \in 0..(req[r].totalChunks - 1) :
            i \in Range(chunksTracker'[u].chunks)]_vars

\* C28 amended: whenever a chunk submission takes the gate and starts the
\* combine pipeline, the gate was free and the number of distinct indices
\* received equals the total that submission declared; which indices they are
\* is not tested.
C28_CountEqualsTotal ==
  [][\A r \in Reqs :
       LET u == req[r].uploadId IN
       StartsPipeline(r)
       => /\ Len(chunksTracker'[u].chunks) = req[r].totalChunks
          /\ chunksTracker'[u].totalChunks = req[r].totalChunks
          /\ req'[r].T = req[r].totalChunks
          /\ ~processingLock[u]
          /\ processingLock'[u]]_vars

C28_Witness ==
  \E r \in Reqs :
    LET u == req[r].uploadId IN
    /\ req[r].pc = "access"
    /\ req[r].T = 1
    /\ chunksTracker[u].chunks = <<1>>
    /\ processingLock[u]

\* C29: an upload identifier whose gate entry is held is registered in the
\* upload registry, in every reachable state and in the state a cancel call
\* would leave.
C29_LockImpliesSession ==
  \A u \in Uploads :
    /\ processingLock[u] => chunksTracker[u].live
    /\ CancelResponse(u).res.processingLock[u]
       => CancelResponse(u).res.chunksTracker[u].live

C29_Witness ==
  \E u \in Uploads :
    /\ processingLock[u]
    /\ chunksTracker[u].live
    /\ chunksTracker[u].status = "failed"
    /\ CancelResponse(u).code = 500
    /\ \E r \in Running(u) : req[r].pc = "unlink"

\* C25: when the transform fails, the pipeline ends with the failure reported
\* and the combined bytes of the upload available at its final artifact path.
C25_TransformFailureKeepsBytes ==
  [][\A r \in Reqs :
       LET u == req[r].uploadId IN
       (Leaves(r) /\ req[r].kind = "error-preserved")
       => /\ req'[r].outcome = "error"
          /\ \E f \in uploadDir' :
               /\ f.owner = u
               /\ f.name = req[r].final
               /\ f.data = req[r].written]_vars

\* C24: a ledger entry leaves the ledger only after its own cleanup has run.
\* (The length of the retention window is not modelled: the expiry callback of
\* a cleanup may run at any time after that cleanup.)
C24_LedgerRetention ==
  [][\A u \in Uploads :
       (cleanupRegistry[u].present /\ ~cleanupRegistry'[u].present)
       => cleanupRegistry[u].cleaned]_vars

\* C27: registering again for an upload that already has a ledger record keeps
\* the fields registered earlier: a call that supplies only the final-file name
\* (its chunk list absent, written 0 here) leaves the chunk list of the record
\* as it was.
C27_EarlierFieldsKept ==
  \A u \in Uploads :
    (cleanupRegistry[u].present /\ cleanupRegistry[u].chunks > 0)
    => RegisterForCleanup(cleanupRegistry, u, 0, 1)[u].chunks = cleanupRegistry[u].chunks

\* C21: at every instant at most maxConcurrent transfers are in progress, and a
\* queued task is handed to the handler only from a state in which fewer than
\* maxConcurrent are: with the pool full it waits until a transfer has ended.
C21_BoundedTransfers ==
  [][/\ Transferring(syncQueue) <= maxConcurrent
     /\ Transferring(syncQueue') <= maxConcurrent
     /\ \A k \in Tasks :
          (syncQueue[k].state = "queued" /\ syncQueue'[k].state = "running")
          => Transferring(syncQueue) < maxConcurrent]_vars

\* the pool is full again after a transfer has ended: the task submitted
\* beyond the bound has taken the slot
C21_Witness ==
  /\ Transferring(syncQueue) = maxConcurrent
  /\ \E k \in Tasks : k > maxConcurrent /\ syncQueue[k].state = "running"
  /\ \E k \in Tasks : syncQueue[k].state \in {"finished", "failed"}

\* the errors of a first call are met again by a second call
Persist(f1, f2) ==
  \/ f2.listing
  \/ /\ ~f1.listing
     /\ f1.chunks \subseteq f2.chunks
     /\ f1.temp => f2.temp
     /\ f1.final => f2.final

\* C22: cleanupUpload never rejects, whatever listing or deletion error it
\* meets, and a second call for the same upload with the same success flag
\* leaves the chunk, temp and output directories as the first call left them
\* (the errors of the first call being met again by the second).
C22_CleanupNeverRaisesIdempotent ==
  \A u \in Uploads, success \in BOOLEAN, f1 \in Faults :
    \A first \in {CleanupUpload(chunksDir, processingDir, uploadDir,
                                cleanupRegistry, u, success, f1)} :
      /\ ~first.raised
      /\ \A f2 \in {f \in Faults : Persist(f1, f)} :
           \A second \in {CleanupUpload(first.chunksDir, first.processingDir,
                                        first.uploadDir, first.cleanupRegistry,
                                        u, success, f2)} :
             /\ ~second.raised
             /\ second.chunksDir = first.chunksDir
             /\ second.processingDir = first.processingDir
             /\ second.uploadDir = first.uploadDir

\* a state in which a failure-mode call deletes from all three directories
C22_Witness ==
  \E u \in Uploads :
    LET first == CleanupUpload(chunksDir, processingDir, uploadDir,
                               cleanupRegistry, u, FALSE, NoFault)
    IN /\ first.chunksDir # chunksDir
       /\ first.processingDir # processingDir
       /\ first.uploadDir # uploadDir
       /\ first.cleanupRegistry[u].cleaned

\* C26: a file that disappears between the listing of a periodic sweep and its
\* stat or delete never makes the sweep throw out of its timer callback.
C26_SweepsTolerateRaces ==
  \A o \in SetupCleanupTasks(processingDir, UnlinkInFlight(req)) : ~o.raised

\* C23: the final artifact of a pipeline whose transform succeeded and whose
\* success cleanup has run is still protected from the orphan sweep, its relay
\* not having finished.
C23_PendingArtifactProtected ==
  [][\A r \in Reqs : LET u == req[r].uploadId IN
       (req[r].pc = "unlink" /\ req[r].success /\ req'[r] # req[r])
       => \A f \in uploadDir' :
            (f.owner = u /\ f.name = req[r].final)
            => IsRegistered(cleanupRegistry', f)]_vars
====
